---- MODULE Spec2Model ----
(***************************************************************************)
(* NoteCast backend: the PDF-to-podcast pipeline of                        *)
(* pdf_podcast_converter.py (PDFToPodcastConverter) and its caller in      *)
(* app.py.  Python strings are TLA+ strings, Python lists are tuples and   *)
(* Python dicts are functions whose domain is the set of keys present.     *)
(***************************************************************************)
EXTENDS Integers, Sequences, FiniteSets, TLC

VARIABLES
    pc,            \* position of the running call
    client,        \* self.client is set (GROQ_API_KEY was present)
    preferences,   \* the preferences dict
    text,          \* input text of the call (extracted text / chunk text)
    section_num,   \* section_num argument of generate_podcast_script
    total_sections,\* total_sections argument of generate_podcast_script
    chunk_size,    \* chunk size chosen by convert_pdf_to_podcast / max_chars of chunk_text
    chunks,        \* chunks after the cap of convert_pdf_to_podcast
    script,        \* raw script of the last generation / parser input
    request,       \* the last remote text-generation request, or NoRequest
    reply,         \* what the remote endpoint did with it
    gen_log,       \* log of the calls of generate_podcast_script made so far
    all_dialogue,  \* the transcript (list of {speaker, text})
    script_file,   \* content of <stem>_script.json, or NoFile
    seg,           \* 0-based index of the segment synthesize_speech is at
    attempt,       \* 0-based attempt number within the retry loop
    audio_files,   \* list of clip paths collected so far
    files,         \* the file system: path -> list of byte blocks
    unreadable,    \* paths that exist but cannot be opened for reading
    out_writable,  \* the output path can be opened for writing
    tts_down,      \* the speech service is unreachable for the whole run
    voices_down,   \* speakers whose voice the speech service cannot serve in this run
    output_path,   \* output_path argument of convert_pdf_to_podcast
    tts_faults,    \* failing synthesis calls the environment may still cause
    calls,         \* log of the synthesis calls made so far
    tiers,         \* assembly tiers run so far, in order
    tool,          \* how the run of the concatenation tool ended, or "not_run"
    reqs,          \* concurrent conversion requests: request id -> its state
    result,        \* return value / raised exception of the call
    response       \* the HTTP response of /api/convert, or NoResponse

EnvVars ==
    <<client, preferences, unreadable, out_writable, tts_down, voices_down, output_path>>

GenVars ==
    <<text, section_num, total_sections, chunk_size, chunks, script, request, reply, gen_log>>

SynthVars == <<seg, attempt, audio_files, calls, tts_faults>>

FsVars == <<files, script_file, tiers, tool>>

vars == <<pc, EnvVars, GenVars, all_dialogue, SynthVars, FsVars, reqs, result, response>>

(***************************************************************************)
(* Python string primitives.                                               *)
(***************************************************************************)
Whitespace == {" ", "\t", "\n", "\r"}

Char(s, i) == SubSeq(s, i, i)

MinOf(a, b) == IF a <= b THEN a ELSE b

\* s[:n]
Prefix(s, n) == SubSeq(s, 1, MinOf(n, Len(s)))

\* s.strip()
Strip(s) ==
    IF \A i \in 1..Len(s) : Char(s, i) \in Whitespace THEN ""
    ELSE LET first == CHOOSE i \in 1..Len(s) :
                          /\ Char(s, i) \notin Whitespace
                          /\ \A j \in 1..(i - 1) : Char(s, j) \in Whitespace
             last  == CHOOSE i \in 1..Len(s) :
                          /\ Char(s, i) \notin Whitespace
                          /\ \A j \in (i + 1)..Len(s) : Char(s, j) \in Whitespace
         IN  SubSeq(s, first, last)

\* s.startswith(p)
StartsWith(s, p) == Len(s) >= Len(p) /\ SubSeq(s, 1, Len(p)) = p

\* index of the first occurrence of pat in s at or after from, 0 if none
Find(s, pat, from) ==
    LET hit(i) == SubSeq(s, i, i + Len(pat) - 1) = pat
        last   == Len(s) - Len(pat) + 1
    IN  IF \E i \in from..last : hit(i)
        THEN CHOOSE i \in from..last : hit(i) /\ \A j \in from..(i - 1) : ~hit(j)
        ELSE 0

\* s.replace(old, new): leftmost non-overlapping occurrences, old non-empty
RECURSIVE Replace(_, _, _)
Replace(s, old, new) ==
    LET i == Find(s, old, 1)
    IN  IF i = 0 THEN s
        ELSE SubSeq(s, 1, i - 1) \o new
             \o Replace(SubSeq(s, i + Len(old), Len(s)), old, new)

\* re.sub(open [^close]* close, '', s) for one-character delimiters
RECURSIVE ReSubSpan(_, _, _)
ReSubSpan(s, open, close) ==
    LET i == Find(s, open, 1)
        j == IF i = 0 THEN 0 ELSE Find(s, close, i + 1)
    IN  IF j = 0 THEN s
        ELSE SubSeq(s, 1, i - 1) \o ReSubSpan(SubSeq(s, j + 1, Len(s)), open, close)

\* s.split(sep) for a one-character separator
RECURSIVE SplitOn(_, _)
SplitOn(s, sep) ==
    LET i == Find(s, sep, 1)
    IN  IF i = 0 THEN <<s>>
        ELSE <<SubSeq(s, 1, i - 1)>> \o SplitOn(SubSeq(s, i + 1, Len(s)), sep)

\* s.split(): maximal runs of non-whitespace characters
RECURSIVE SplitWords(_)
SplitWords(s) ==
    LET t == Strip(s)
    IN  IF t = "" THEN <<>>
        ELSE IF \E i \in 1..Len(t) : Char(t, i) \in Whitespace
        THEN LET e == CHOOSE i \in 1..Len(t) :
                          /\ Char(t, i) \in Whitespace
                          /\ \A j \in 1..(i - 1) : Char(t, j) \notin Whitespace
             IN  <<SubSeq(t, 1, e - 1)>> \o SplitWords(SubSeq(t, e + 1, Len(t)))
        ELSE <<t>>

\* the words joined without the separator
RECURSIVE JoinNoSep(_, _)
JoinNoSep(words, sep) ==
    IF words = <<>> THEN "" ELSE words[1] \o JoinNoSep(Tail(words), sep)

\* sep.join(words)
RECURSIVE Join(_, _)
Join(words, sep) ==
    IF words = <<>> THEN ""
    ELSE IF Len(words) = 1 THEN words[1]
    ELSE words[1] \o sep \o Join(Tail(words), sep)

\* dict.get(key, default)
Get(d, key, default) == IF key \in DOMAIN d THEN d[key] ELSE default

(***************************************************************************)
(* chunk_text                                                              *)
(***************************************************************************)
\* the loop closing the chunk already when the bound is reached, not when it is exceeded
RECURSIVE ChunkLoopGe(_, _, _, _, _, _)
ChunkLoopGe(words, k, done, current_chunk, current_length, max_chars) ==
    IF k > Len(words)
    THEN IF current_chunk # <<>> THEN Append(done, Join(current_chunk, " ")) ELSE done
    ELSE LET word        == words[k]
             word_length == Len(word) + 1
         IN  IF current_length + word_length >= max_chars /\ current_chunk # <<>>
             THEN ChunkLoopGe(words, k + 1, Append(done, Join(current_chunk, " ")),
                              <<word>>, word_length, max_chars)
             ELSE ChunkLoopGe(words, k + 1, done, Append(current_chunk, word),
                              current_length + word_length, max_chars)

\* the loop without the flush of the last chunk after the last word
RECURSIVE ChunkLoopNoFlush(_, _, _, _, _, _)
ChunkLoopNoFlush(words, k, done, current_chunk, current_length, max_chars) ==
    IF k > Len(words) THEN done
    ELSE LET word        == words[k]
             word_length == Len(word) + 1
         IN  IF current_length + word_length > max_chars /\ current_chunk # <<>>
             THEN ChunkLoopNoFlush(words, k + 1, Append(done, Join(current_chunk, " ")),
                                   <<word>>, word_length, max_chars)
             ELSE ChunkLoopNoFlush(words, k + 1, done, Append(current_chunk, word),
                                   current_length + word_length, max_chars)

RECURSIVE ChunkLoop(_, _, _, _, _, _)
ChunkLoop(words, k, done, current_chunk, current_length, max_chars) ==
    IF k > Len(words)
    THEN IF current_chunk # <<>> THEN Append(done, Join(current_chunk, " ")) ELSE done
    ELSE LET word        == words[k]
             word_length == Len(word) + 1
         IN  IF current_length + word_length > max_chars /\ current_chunk # <<>>
             THEN ChunkLoop(words, k + 1, Append(done, Join(current_chunk, " ")),
                            <<word>>, word_length, max_chars)
             ELSE ChunkLoop(words, k + 1, done, Append(current_chunk, word),
                            current_length + word_length, max_chars)

chunk_text(t, max_chars) == ChunkLoop(SplitWords(t), 1, <<>>, <<>>, 0, max_chars)

(***************************************************************************)
(* _build_prompt.  A Python exception is the record Raised(name).  The em  *)
(* dash of the humor instruction is written "-".                           *)
(***************************************************************************)
Returned(v) == [kind |-> "return", value |-> v]

Raised(e) == [kind |-> "raise", error |-> e]

tone_styles ==
    "casual" :> [host |-> "friendly, enthusiastic, uses casual language like \"you know\", \"pretty cool\"",
                 expert |-> "knowledgeable but relaxed, explains things like talking to a friend",
                 style |-> "Keep it light and fun, like friends chatting over coffee"] @@
    "conversational" :> [host |-> "engaging and curious, asks thoughtful questions",
                 expert |-> "clear and articulate, good at explaining concepts",
                 style |-> "Natural conversation with good flow"] @@
    "professional" :> [host |-> "well-prepared, asks insightful questions",
                 expert |-> "authoritative and precise, provides detailed explanations",
                 style |-> "Professional but accessible, like a quality educational podcast"]

length_guides ==
    "short" :> "4-6 quick exchanges, hit the main points" @@
    "medium" :> "8-10 exchanges, cover key concepts with some depth" @@
    "long" :> "12-15 exchanges, thorough exploration with examples"

depth_guides ==
    "overview" :> "Focus on high-level takeaways and main ideas" @@
    "balanced" :> "Balance overview with some detailed explanations and examples" @@
    "deep-dive" :> "Provide thorough explanations, examples, and explore nuances"

HumorInstruction ==
    "\n- Add occasional light humor, relatable analogies, and personality\n- Make it engaging and enjoyable, not dry\n- CRITICAL: DO NOT WRITE STAGE DIRECTIONS LIKE (LAUGHS), [CHUCKLES], or [MUSIC]-only write dialogue."

FirstSectionInstruction ==
    "Since this is the first section, the HOST should open the podcast with a warm welcome and an overview."

MiddleSectionInstruction ==
    "This is a middle section. The conversation must **START IN MEDIA RES (mid-conversation)**. The HOST should transition smoothly from the previous segment's topic to introduce this new content."

FinalSectionInstruction ==
    "This is the final section. The conversation must **START IN MEDIA RES**. The final exchange must be a clear wrap-up and conclusion, with the HOST thanking the EXPERT."

\* the section's position compared with <= instead of <
ContinuityInstructionLe(sn, ts) ==
    IF ts > 1
    THEN IF sn = 1 THEN FirstSectionInstruction
         ELSE IF sn <= ts THEN MiddleSectionInstruction
         ELSE FinalSectionInstruction
    ELSE ""

ContinuityInstruction(sn, ts) ==
    IF ts > 1
    THEN IF sn = 1 THEN FirstSectionInstruction
         ELSE IF sn < ts THEN MiddleSectionInstruction
         ELSE FinalSectionInstruction
    ELSE ""

_build_prompt(text_sample, prefs, sn, ts) ==
    LET tone   == Get(prefs, "tone", "conversational")
        length == Get(prefs, "length", "medium")
        depth  == Get(prefs, "depth", "balanced")
        humor  == Get(prefs, "humor", TRUE)
        tone_style == IF tone \in DOMAIN tone_styles THEN tone_styles[tone]
                      ELSE tone_styles["conversational"]
        humor_instruction == IF humor THEN HumorInstruction ELSE ""
        continuity_instruction == ContinuityInstruction(sn, ts)
    IN  IF length \notin DOMAIN length_guides THEN Raised("KeyError")
        ELSE IF depth \notin DOMAIN depth_guides THEN Raised("KeyError")
        ELSE Returned(
        "You are a podcast script writer. Create a "
        \o tone
        \o " conversation between HOST and EXPERT.\n        \n"
        \o continuity_instruction
        \o " \n\nHOST personality: "
        \o tone_style.host
        \o "\nEXPERT personality: "
        \o tone_style.expert
        \o "\n\nStyle: "
        \o tone_style.style
        \o "\n\nLength: "
        \o length_guides[length]
        \o "\nDepth: "
        \o depth_guides[depth]
        \o humor_instruction
        \o "\n\nSTRICT FORMAT - Each line must start with HOST: or EXPERT:\n\nExample (for non-final section):\nHOST: That connects perfectly to our next topic, the rise of quantum computing.\nEXPERT: Indeed, that's where the real complexity begins.\n\nContent to discuss (Section "
        \o ToString(sn)
        \o " of "
        \o ToString(ts)
        \o "):\n"
        \o text_sample
        \o "\n\nCreate the podcast dialogue following the format above:")

(***************************************************************************)
(* _create_fallback_script and generate_podcast_script                     *)
(***************************************************************************)
_create_fallback_script(t) ==
    LET text_snippet == Replace(Prefix(t, 200), "\n", " ")
    IN  "HOST: Welcome everyone to today's episode! We're diving into some really interesting material.\n"
        \o "EXPERT: Thank you for having me! I'm excited to break down these concepts for your listeners.\n"
        \o "HOST: Let's start with the basics. What's the main topic we're covering today?\n"
        \o "EXPERT: This content focuses on "
        \o text_snippet
        \o ". It's a fascinating subject with practical applications.\n"
        \o "HOST: That sounds intriguing! Can you elaborate on the key points?\n"
        \o "EXPERT: Absolutely. The first major concept revolves around understanding the fundamental principles and how they interconnect.\n"
        \o "HOST: How does this apply in real-world scenarios?\n"
        \o "EXPERT: Great question! In practice, these ideas help us solve complex problems by providing a structured framework.\n"
        \o "HOST: Are there any common misconceptions people have about this topic?\n"
        \o "EXPERT: Yes, many people initially think it's more complicated than it actually is. Once you understand the core ideas, everything else falls into place.\n"
        \o "HOST: That's really helpful context. What should listeners remember most?\n"
        \o "EXPERT: The key takeaway is that mastering the basics opens doors to understanding the more advanced concepts. Start simple and build from there.\n"
        \o "HOST: Excellent advice! Thank you so much for sharing your insights.\n"
        \o "EXPERT: My pleasure! I hope this has been valuable for everyone listening."

NoRequest == [kind |-> "none"]

length_tokens == "short" :> 600 @@ "medium" :> 1000 @@ "long" :> 1500

\* the chat.completions.create request; the temperature is in tenths
CompletionRequest(prompt, prefs) ==
    LET length == Get(prefs, "length", "medium")
    IN  [kind |-> "create",
         prompt |-> prompt,
         temperature |-> IF Get(prefs, "humor", FALSE) THEN 9 ELSE 7,
         max_tokens |-> IF length \in DOMAIN length_tokens THEN length_tokens[length]
                        ELSE 1000]

\* What the remote endpoint does with a request: it answers with a script, signals a
\* rate limit (RateLimitError) or fails in another way (any other Exception).
RemoteOk(content) == [kind |-> "ok", content |-> content]

RemoteRateLimit == [kind |-> "rate_limit"]

RemoteError == [kind |-> "error"]

\* the scripts the endpoint answers with: a well-formed one and one without speakers
RemoteScripts == { "HOST: Hi there\nEXPERT: Hello there", "I cannot help with that." }

RemoteOutcomes == {RemoteOk(c) : c \in RemoteScripts} \cup {RemoteRateLimit, RemoteError}

\* generate_podcast_script: the value returned or the exception raised, with the
\* request issued (NoRequest when none was) and what became of it.
generate_podcast_script(has_client, t, prefs, sn, ts, outcome) ==
    IF ~has_client
    THEN [result |-> Returned(_create_fallback_script(t)),
          request |-> NoRequest, reply |-> "not_called"]
    ELSE LET text_sample == Replace(Prefix(t, 2000), "\n", " ")
             prompt      == _build_prompt(text_sample, prefs, sn, ts)
         IN  IF prompt.kind = "raise"
             THEN [result |-> prompt, request |-> NoRequest, reply |-> "not_called"]
             ELSE [result |-> IF outcome.kind = "ok" THEN Returned(outcome.content)
                              ELSE Returned(_create_fallback_script(t)),
                   request |-> CompletionRequest(prompt.value, prefs),
                   reply |-> outcome.kind]

(***************************************************************************)
(* parse_dialogue                                                          *)
(***************************************************************************)
Segment(speaker, t) == [speaker |-> speaker, text |-> t]

\* the body of the for loop over the lines, applied to one line
ParseLine(dialogue, rawline) ==
    LET line == Strip(rawline)
    IN  IF line = "" THEN dialogue
        ELSE IF StartsWith(line, "HOST:")
        THEN LET t == Strip(Replace(line, "HOST:", ""))
             IN  IF t # "" THEN Append(dialogue, Segment("HOST", t)) ELSE dialogue
        ELSE IF StartsWith(line, "EXPERT:")
        THEN LET t == Strip(Replace(line, "EXPERT:", ""))
             IN  IF t # "" THEN Append(dialogue, Segment("EXPERT", t)) ELSE dialogue
        ELSE IF dialogue # <<>>
        THEN [dialogue EXCEPT ![Len(dialogue)].text = @ \o " " \o line]
        ELSE dialogue

RECURSIVE ParseLines(_, _, _)
ParseLines(lines, k, dialogue) ==
    IF k > Len(lines) THEN dialogue
    ELSE ParseLines(lines, k + 1, ParseLine(dialogue, lines[k]))

\* the clean-up without the removal of parenthesized spans
CleanTextKeepsParens(t) ==
    LET t1 == Replace(Replace(Strip(t), "**", ""), "*", "")
        t3 == ReSubSpan(t1, "[", "]")
        t4 == ReSubSpan(t3, "<", ">")
    IN  Strip(Replace(Strip(t4), "...", ""))

\* the clean-up of one entry's text: emphasis markers, stage directions, ellipses
CleanText(t) ==
    LET t1 == Replace(Replace(Strip(t), "**", ""), "*", "")
        t2 == ReSubSpan(t1, "(", ")")
        t3 == ReSubSpan(t2, "[", "]")
        t4 == ReSubSpan(t3, "<", ">")
    IN  Strip(Replace(Strip(t4), "...", ""))

\* the test that keeps a cleaned entry
KeepsTextGe(t) == Len(t) >= 5

KeepsText(t) == Len(t) > 5

RECURSIVE CleanDialogue(_)
CleanDialogue(dialogue) ==
    IF dialogue = <<>> THEN <<>>
    ELSE LET t == CleanText(Head(dialogue).text)
         IN  (IF KeepsText(t) THEN <<Segment(Head(dialogue).speaker, t)>> ELSE <<>>)
             \o CleanDialogue(Tail(dialogue))

PlaceholderDialogue ==
    << Segment("HOST", "Welcome to this podcast episode about your document."),
       Segment("EXPERT", "Thank you for having me. Let me share the key insights from this material.") >>

parse_dialogue(s) ==
    LET lines   == SplitOn(Strip(s), "\n")
        cleaned == CleanDialogue(ParseLines(lines, 1, <<>>))
    IN  IF cleaned = <<>> THEN PlaceholderDialogue ELSE cleaned

(***************************************************************************)
(* Files.  A file's content is a list of byte blocks [src, bytes]: `bytes` *)
(* bytes that were produced for `src`.  A path outside DOMAIN files does   *)
(* not exist.                                                              *)
(***************************************************************************)
None == "None"

Block(src, n) == [src |-> src, bytes |-> n]

RECURSIVE Size(_)
Size(content) == IF content = <<>> THEN 0 ELSE Head(content).bytes + Size(Tail(content))

Exists(fs, path) == path \in DOMAIN fs

WriteFile(fs, path, content) == [q \in DOMAIN fs \cup {path} |-> IF q = path THEN content ELSE fs[q]]

RemoveFile(fs, path) == [q \in DOMAIN fs \ {path} |-> fs[q]]

Range(f) == {f[i] : i \in DOMAIN f}

(***************************************************************************)
(* synthesize_speech                                                       *)
(***************************************************************************)
max_retries == 2

OutputDir == "output"

Pad3(n) == IF n < 10 THEN "00" \o ToString(n)
           ELSE IF n < 100 THEN "0" \o ToString(n) ELSE ToString(n)

\* f"{output_dir}/segment_{idx:03d}_{speaker}.mp3"
ClipPath(idx, speaker) == OutputDir \o "/segment_" \o Pad3(idx) \o "_" \o speaker \o ".mp3"

\* the segment is skipped without any synthesis call
Skipped(segment) == segment.text = "" \/ Len(Strip(segment.text)) < 3

\* 0-based index of the first segment at or after k that gets a synthesis call
RECURSIVE NextSegment(_, _)
NextSegment(dialogue, k) ==
    IF k >= Len(dialogue) THEN Len(dialogue)
    ELSE IF Skipped(dialogue[k + 1]) THEN NextSegment(dialogue, k + 1)
    ELSE k

\* os.path.exists(filename) and os.path.getsize(filename) > 1000
ClipAcceptedGe(fs, filename) == Exists(fs, filename) /\ Size(fs[filename]) >= 1000

ClipAccepted(fs, filename) == Exists(fs, filename) /\ Size(fs[filename]) > 1000

\* a failed attempt is followed by another attempt on the same segment
RetryLeftNever(a) == FALSE

RetryLeftLe(a) == a <= max_retries - 1

RetryLeft(a) == a < max_retries - 1

\* What one call of the speech service does: it raises or returns, and it has
\* written a file of `wrote` bytes or (wrote = -1) no file.
TtsWrites == {-1, 1000, 1001}

TtsOutcomes == [raises : BOOLEAN, wrote : TtsWrites]

\* one pass of the retry loop: the synthesis call, the check of the file, and the
\* work up to the next synthesis call or the end of the loop over the segments
SynthAttempt ==
    /\ pc = "synthesize_speech"
    /\ seg < Len(all_dialogue)
    /\ \E o \in TtsOutcomes :
         LET segment  == all_dialogue[seg + 1]
             filename == ClipPath(seg, segment.speaker)
             fs       == IF o.wrote >= 0
                         THEN WriteFile(files, filename, <<Block(filename, o.wrote)>>)
                         ELSE files
             success  == ~o.raises /\ ClipAccepted(fs, filename)
             fault    == o.raises \/ ~(Exists(fs, filename) /\ Size(fs[filename]) > 1000)
             down     == tts_down \/ segment.speaker \in voices_down
         IN  /\ down => (o.raises /\ o.wrote = -1)
             /\ (fault /\ ~down) => tts_faults > 0
             /\ tts_faults' = IF fault /\ ~down THEN tts_faults - 1 ELSE tts_faults
             /\ files' = fs
             /\ calls' = Append(calls, [idx |-> seg, attempt |-> attempt,
                                        raised |-> o.raises,
                                        exists |-> Exists(fs, filename),
                                        size |-> IF Exists(fs, filename)
                                                 THEN Size(fs[filename]) ELSE 0])
             /\ audio_files' = IF success THEN Append(audio_files, filename)
                               ELSE audio_files
             /\ IF ~success /\ RetryLeft(attempt)
                THEN seg' = seg /\ attempt' = attempt + 1
                ELSE seg' = NextSegment(all_dialogue, seg + 1) /\ attempt' = 0
    /\ UNCHANGED <<pc, reqs, EnvVars, GenVars, all_dialogue, script_file, tiers, tool, result, response>>

\* the loop over the segments is over: return audio_files to the caller
SynthReturn ==
    /\ pc = "synthesize_speech"
    /\ seg = Len(all_dialogue)
    /\ pc' = "combine_audio_files"
    /\ UNCHANGED <<reqs, EnvVars, GenVars, all_dialogue, SynthVars, FsVars, result, response>>

(***************************************************************************)
(* combine_audio_files and _fallback_combine, followed by the return of    *)
(* convert_pdf_to_podcast, which only wraps what combine_audio_files gave. *)
(***************************************************************************)
OutputPath == "output/notes.mp3"

\* output_path.replace('.mp3', '_filelist.txt')
ListFileOf(path) == Replace(path, ".mp3", "_filelist.txt")

ListFile == ListFileOf(OutputPath)

Readable(fs, path) == Exists(fs, path) /\ path \notin unreadable

\* the manifest: one entry per clip, in list order
Manifest(clips) == [i \in 1..Len(clips) |-> Block(clips[i], 0)]

\* the bytes of the first clip only
RawConcatFirstOnly(fs, clips) == IF clips = <<>> THEN <<>> ELSE fs[Head(clips)]

\* the bytes of the clips, appended in list order
RECURSIVE RawConcat(_, _)
RawConcat(fs, clips) ==
    IF clips = <<>> THEN <<>> ELSE fs[Head(clips)] \o RawConcat(fs, Tail(clips))

\* the clips before the first one that cannot be opened for reading
RECURSIVE ReadablePrefix(_, _)
ReadablePrefix(fs, clips) ==
    IF clips = <<>> \/ ~Readable(fs, Head(clips)) THEN <<>>
    ELSE <<Head(clips)>> \o ReadablePrefix(fs, Tail(clips))

\* combine_audio_files going on to the fallback although it has its result
ConvertReturnsFallsThrough(final_path) ==
    /\ result' = Returned([output_path |-> final_path, transcript |-> all_dialogue])
    /\ pc' = IF pc = "combine_audio_files" THEN "_fallback_combine" ELSE "done"

\* return {'output_path': final_path, 'transcript': all_dialogue}
ConvertReturns(final_path) ==
    /\ result' = Returned([output_path |-> final_path, transcript |-> all_dialogue])
    /\ pc' = "done"

\* How the run of the concatenation tool can end.  "manifest_error": the manifest
\* could not be written; "exception": subprocess.run raised; "timeout":
\* TimeoutExpired; "nonzero": exit status other than 0; "ok_no_output": exit status 0
\* and no output file; "ok_output": exit status 0 and the output file written.
ToolOutcomes ==
    {"manifest_error", "exception", "timeout", "nonzero", "ok_no_output", "ok_output"}

\* combine_audio_files up to its return or its call of _fallback_combine
CombineTier1 ==
    /\ pc = "combine_audio_files"
    /\ IF audio_files = <<>>
       THEN /\ ConvertReturns(None)
            /\ UNCHANGED <<files, tiers, tool>>
       ELSE \E o \in ToolOutcomes :
              LET list_file == ListFileOf(output_path) IN
              /\ o = "ok_output" =>
                     (out_writable /\ \A i \in 1..Len(audio_files) : Readable(files, audio_files[i]))
              /\ tool' = o
              /\ tiers' = Append(tiers, "tier1")
              /\ CASE o = "manifest_error" ->
                        /\ files' = files
                        /\ pc' = "_fallback_combine" /\ result' = result
                   [] o \in {"exception", "timeout"} ->
                        /\ files' = WriteFile(files, list_file, Manifest(audio_files))
                        /\ pc' = "_fallback_combine" /\ result' = result
                   [] o \in {"nonzero", "ok_no_output"} ->
                        /\ files' = RemoveFile(WriteFile(files, list_file, Manifest(audio_files)),
                                               list_file)
                        /\ pc' = "_fallback_combine" /\ result' = result
                   [] o = "ok_output" ->
                        LET fs == RemoveFile(
                                      WriteFile(
                                          WriteFile(files, list_file, Manifest(audio_files)),
                                          output_path,
                                          <<Block("ffmpeg", Size(RawConcat(files, audio_files)))>>),
                                      list_file)
                        IN  /\ files' = fs
                            /\ IF Exists(fs, output_path)
                               THEN ConvertReturns(output_path)
                               ELSE pc' = "_fallback_combine" /\ result' = result
    /\ UNCHANGED <<reqs, EnvVars, GenVars, all_dialogue, SynthVars, script_file, response>>

\* _fallback_combine, the binary concatenation
CombineTier2 ==
    /\ pc = "_fallback_combine"
    /\ tiers' = Append(tiers, "tier2")
    /\ IF out_writable
       THEN IF \A i \in 1..Len(audio_files) : Readable(files, audio_files[i])
            THEN /\ files' = WriteFile(files, output_path, RawConcat(files, audio_files))
                 /\ ConvertReturns(output_path)
            ELSE /\ files' = WriteFile(files, output_path,
                                       RawConcat(files, ReadablePrefix(files, audio_files)))
                 /\ pc' = "first_segment_only" /\ result' = result
       ELSE /\ files' = files
            /\ pc' = "first_segment_only" /\ result' = result
    /\ UNCHANGED <<reqs, EnvVars, GenVars, all_dialogue, SynthVars, script_file, tool, response>>

\* _fallback_combine after the binary concatenation failed: the first clip only
CombineTier3 ==
    /\ pc = "first_segment_only"
    /\ tiers' = Append(tiers, "tier3")
    /\ IF Exists(files, audio_files[1])
       THEN IF Readable(files, audio_files[1]) /\ out_writable
            THEN /\ files' = WriteFile(files, output_path, files[audio_files[1]])
                 /\ ConvertReturns(output_path)
            ELSE /\ files' = files
                 /\ result' = Raised("OSError") /\ pc' = "raised"
       ELSE /\ files' = files
            /\ ConvertReturns(None)
    /\ UNCHANGED <<reqs, EnvVars, GenVars, all_dialogue, SynthVars, script_file, tool, response>>

(***************************************************************************)
(* convert_pdf_to_podcast, called by convert_pdf of app.py                 *)
(***************************************************************************)
\* max_pages as convert_pdf passes it
max_pages == 3

chunk_sizes == "short" :> 2000 @@ "medium" :> 3000 @@ "long" :> 4000

ChunkSize(prefs) ==
    LET length == Get(prefs, "length", "medium")
    IN  IF length \in DOMAIN chunk_sizes THEN chunk_sizes[length] ELSE 3000

\* max_chunks = 1 if preferences.get('length') == 'short' else 2
MaxChunks(prefs) == IF "length" \in DOMAIN prefs /\ prefs["length"] = "short" THEN 1 ELSE 2

\* the trailing chunks instead of the leading ones
CapChunksLast(cs, prefs) ==
    SubSeq(cs, Len(cs) - MinOf(MaxChunks(prefs), Len(cs)) + 1, Len(cs))

\* chunks[:max_chunks]
CapChunks(cs, prefs) == SubSeq(cs, 1, MinOf(MaxChunks(prefs), Len(cs)))

RECURSIVE Rep(_, _)
Rep(s, n) == IF n = 0 THEN "" ELSE s \o Rep(s, n - 1)

\* a word of 1500 characters
LongWord == Rep(Rep("quantum-entanglement-", 25) \o Rep("x", 225), 2)

\* What the extraction can yield: no text, whitespace only, a short text, a text of
\* three different long words (more chunks than the cap lets through) and a text longer than
\* max_pages * 3000 characters.
PdfTexts ==
    { "", " \n\n ", "Qubits are the basic\nunit of quantum information.\n",
      "first-" \o LongWord \o " second-" \o LongWord \o "\nthird-" \o LongWord \o "\n",
      Rep(LongWord \o "\n", 7) }

\* the entry of gen_log for one call of generate_podcast_script
GenCall(sn, ts, t, g) ==
    [section_num |-> sn, total_sections |-> ts, text |-> t,
     request |-> g.request, reply |-> g.reply, result |-> g.result]

\* the dialogue put in front of the transcript instead of behind it
ExtendFront(all, dialogue) == dialogue \o all

\* all_dialogue.extend(dialogue)
Extend(all, dialogue) == all \o dialogue

\* text = extract_text_from_pdf(pdf_path) up to the loop over the chunks
Extract ==
    /\ pc = "convert_pdf_to_podcast"
    /\ \/ /\ result' = Raised("PdfReadError") /\ pc' = "raised"
          /\ UNCHANGED <<text, chunk_size, chunks, total_sections>>
       \/ \E extracted \in PdfTexts :
            LET t == Prefix(extracted, max_pages * 3000)
                cs == CapChunks(chunk_text(t, ChunkSize(preferences)), preferences)
            IN  /\ text' = t
                /\ chunk_size' = ChunkSize(preferences)
                /\ chunks' = cs
                /\ total_sections' = Len(cs)
                /\ pc' = IF cs = <<>> THEN "persist" ELSE "generate"
                /\ result' = result
    /\ UNCHANGED <<reqs, EnvVars, section_num, script, request, reply, gen_log, all_dialogue,
                   SynthVars, FsVars, response>>

\* one pass of the loop over the chunks: the script generation with its remote call,
\* the parsing, and all_dialogue.extend(dialogue)
ProcessChunk ==
    /\ pc = "generate"
    /\ section_num < Len(chunks)
    /\ \E outcome \in RemoteOutcomes :
         LET g == generate_podcast_script(client, chunks[section_num + 1], preferences,
                                          section_num + 1, total_sections, outcome)
         IN  /\ request' = g.request
             /\ reply' = g.reply
             /\ gen_log' = Append(gen_log, GenCall(section_num + 1, total_sections,
                                                    chunks[section_num + 1], g))
             /\ section_num' = section_num + 1
             /\ IF g.result.kind = "raise"
                THEN /\ result' = g.result /\ pc' = "raised"
                     /\ UNCHANGED <<script, all_dialogue>>
                ELSE /\ script' = g.result.value
                     /\ all_dialogue' = Extend(all_dialogue, parse_dialogue(g.result.value))
                     /\ pc' = IF section_num + 1 = Len(chunks) THEN "persist" ELSE "generate"
                     /\ result' = result
    /\ UNCHANGED <<reqs, EnvVars, text, chunk_size, chunks, total_sections, SynthVars, FsVars,
                   response>>

\* index of the last "/" of the first k characters of s, or 0
RECURSIVE LastSlash(_, _)
LastSlash(s, k) ==
    IF k = 0 THEN 0
    ELSE IF SubSeq(s, k, k) = "/" THEN k
    ELSE LastSlash(s, k - 1)

\* os.path.dirname(path), for a path that does not end in "/"
Dirname(path) ==
    LET k == LastSlash(path, Len(path))
    IN  IF k <= 1 THEN SubSeq(path, 1, k) ELSE SubSeq(path, 1, k - 1)

\* os.path.basename(path)
Basename(path) == SubSeq(path, LastSlash(path, Len(path)) + 1, Len(path))

\* os.path.join(output_dir, script_filename) with
\* output_dir = os.path.dirname(output_path) or "." and
\* script_filename = os.path.basename(output_path).replace('.mp3', '_script.json')
ScriptPath(path) ==
    LET output_dir      == IF Dirname(path) = "" THEN "." ELSE Dirname(path)
        script_filename == Replace(Basename(path), ".mp3", "_script.json")
    IN  IF output_dir = "/" THEN output_dir \o script_filename
        ELSE output_dir \o "/" \o script_filename

\* a str as json.dump writes it: quoted, backslash and double quote escaped
\* (the texts of the transcript hold no control or non-ASCII character)
JsonString(s) == "\"" \o Replace(Replace(s, "\\", "\\\\"), "\"", "\\\"") \o "\""

\* one {'speaker': ..., 'text': ...} of the list, as json.dump(..., indent=2) writes it
JsonEntry(segment) ==
    "  {\n    \"speaker\": " \o JsonString(segment.speaker)
        \o ",\n    \"text\": " \o JsonString(segment.text) \o "\n  }"

\* json.dump(all_dialogue, f, indent=2)
JsonDump(dialogue) ==
    IF dialogue = <<>> THEN "[]"
    ELSE "[\n" \o Join([i \in 1..Len(dialogue) |-> JsonEntry(dialogue[i])], ",\n") \o "\n]"

\* the content of a file written as text
TextFile(t) == <<Block(t, Len(t))>>

\* the output directory is made and the transcript written to <stem>_script.json;
\* then synthesize_speech is entered
PersistScript ==
    /\ pc = "persist"
    /\ \/ /\ ScriptPath(output_path) = output_path => out_writable
          /\ script_file' = all_dialogue
          /\ files' = WriteFile(files, ScriptPath(output_path), TextFile(JsonDump(all_dialogue)))
          /\ pc' = "synthesize_speech"
          /\ seg' = NextSegment(all_dialogue, 0) /\ attempt' = 0
          /\ result' = result
       \/ /\ result' = Raised("OSError") /\ pc' = "raised"
          /\ UNCHANGED <<script_file, files, seg, attempt>>
    /\ UNCHANGED <<reqs, EnvVars, GenVars, all_dialogue, audio_files, calls, tts_faults,
                   tiers, tool, response>>

\* convert_pdf of app.py after converter.convert_pdf_to_podcast returned or raised
AppRespond ==
    /\ pc \in {"done", "raised"}
    /\ response' =
         IF result.kind = "raise" THEN [status |-> 500, error |-> result.error]
         ELSE IF result.value.output_path = None
         THEN [status |-> 500, error |-> "TypeError"]
         ELSE IF Exists(files, result.value.output_path)
         THEN [status |-> 200, filename |-> "notes.mp3",
               transcript |-> result.value.transcript]
         ELSE [status |-> 500, error |-> "Audio file not created"]
    /\ pc' = "responded"
    /\ UNCHANGED <<reqs, EnvVars, GenVars, all_dialogue, SynthVars, FsVars, result>>

(***************************************************************************)
(* Values shared by the specifications.                                    *)
(***************************************************************************)
NoPrefs == [k \in {} |-> ""]

NoFile == "NoFile"

NoResult == [kind |-> "none"]

NoResponse == [status |-> 0]

NoFiles == [p \in {} |-> <<>>]

SynthIdle ==
    /\ seg = 0 /\ attempt = 0 /\ audio_files = <<>> /\ calls = <<>> /\ tts_faults = 0

FsIdle == files = NoFiles /\ script_file = NoFile /\ tiers = <<>> /\ tool = "not_run"

(***************************************************************************)
(* parse_dialogue as a call of its own: SpecParse.                         *)
(***************************************************************************)
MaxPieces == 3

ParsePieces ==
    << "HOST:", "EXPERT:", "\n", " ", "Hello", "Hi there", "(", ")",
       "[pause]", "<b>", "*", "..." >>

RECURSIVE Concat(_)
Concat(ss) == IF ss = <<>> THEN "" ELSE Head(ss) \o Concat(Tail(ss))

PieceScripts ==
    { Concat([i \in DOMAIN f |-> ParsePieces[f[i]]]) :
        f \in UNION { [1..k -> 1..Len(ParsePieces)] : k \in 0..MaxPieces } }

ExampleScript == "HOST: Hello (laughs)\nEXPERT: [pause] Hi there"

\* a speaker marker alone on its line, its utterance wrapped onto the next line
WrappedScript == "HOST: Hello there\nEXPERT:\nHi there friend"

ParseInputs == PieceScripts \cup {ExampleScript, WrappedScript}

InitParse ==
    /\ pc = "parse_dialogue"
    /\ script \in ParseInputs
    /\ all_dialogue = <<>> /\ result = NoResult /\ response = NoResponse
    /\ client = FALSE /\ preferences = NoPrefs /\ text = ""
    /\ section_num = 1 /\ total_sections = 1 /\ chunks = <<>>
    /\ request = NoRequest /\ reply = "not_called" /\ gen_log = <<>>
    /\ chunk_size = 3000 /\ reqs = <<>>
    /\ unreadable = {} /\ out_writable = TRUE /\ tts_down = FALSE /\ voices_down = {}
    /\ output_path = OutputPath
    /\ SynthIdle /\ FsIdle

ParseCall ==
    /\ pc = "parse_dialogue"
    /\ result' = Returned(parse_dialogue(script))
    /\ pc' = "parsed"
    /\ UNCHANGED <<reqs, EnvVars, GenVars, all_dialogue, SynthVars, FsVars, response>>

NextParse == ParseCall

SpecParse == InitParse /\ [][NextParse]_vars

\* no line of the script starts, once stripped, with a speaker marker
NoSpeakerLine(s) ==
    LET lines == SplitOn(s, "\n")
    IN  \A k \in 1..Len(lines) :
            /\ ~StartsWith(Strip(lines[k]), "HOST:")
            /\ ~StartsWith(Strip(lines[k]), "EXPERT:")

\* C2: parse_dialogue never returns an empty sequence; when no segment survives
\* cleaning (in particular when no line carries a HOST:/EXPERT: prefix) the result is
\* the fixed 2-segment placeholder; every returned segment has a speaker in
\* {HOST, EXPERT} and a text of more than 5 characters.
C2_ParseNeverEmpty ==
    pc = "parsed" =>
        LET d == result.value
            survivors == CleanDialogue(ParseLines(SplitOn(Strip(script), "\n"), 1, <<>>))
        IN  /\ d # <<>>
            /\ (NoSpeakerLine(script) => d = PlaceholderDialogue)
            /\ (survivors = <<>> => d = PlaceholderDialogue)
            /\ \A k \in 1..Len(d) :
                   /\ d[k].speaker \in {"HOST", "EXPERT"}
                   /\ Len(d[k].text) > 5

C2_Witness_PlaceholderReturned ==
    /\ pc = "parsed"
    /\ script = "Hi there\n..."
    /\ result.value = PlaceholderDialogue

\* C3 as stated: the example script parses to [{HOST,"Hello"},{EXPERT,"Hi there"}].
C3_AsStated_BothSpeakersKept ==
    (pc = "parsed" /\ script = ExampleScript) =>
        result.value = << Segment("HOST", "Hello"), Segment("EXPERT", "Hi there") >>

\* C3 amended: the example script parses to the single segment {EXPERT,"Hi there"};
\* the stage directions are removed and the HOST line, whose cleaned text "Hello" has
\* exactly 5 characters, is discarded.
C3_ExampleKeepsExpertOnly ==
    (pc = "parsed" /\ script = ExampleScript) =>
        result.value = << Segment("EXPERT", "Hi there") >>

C3_Witness_ExampleParsed ==
    /\ pc = "parsed"
    /\ script = ExampleScript
    /\ Len(result.value) = 1

(***************************************************************************)
(* Attribution of continuation lines (C21).                                *)
(***************************************************************************)
\* one line read as the grammar words it: a marked line opens a segment for its
\* speaker whatever follows the marker, any other non-empty line joins the open segment
LineOpensSegment(dialogue, rawline) ==
    LET line == Strip(rawline)
    IN  IF line = "" THEN dialogue
        ELSE IF StartsWith(line, "HOST:")
        THEN Append(dialogue, Segment("HOST", Strip(Replace(line, "HOST:", ""))))
        ELSE IF StartsWith(line, "EXPERT:")
        THEN Append(dialogue, Segment("EXPERT", Strip(Replace(line, "EXPERT:", ""))))
        ELSE IF dialogue # <<>>
        THEN [dialogue EXCEPT ![Len(dialogue)].text = @ \o " " \o line]
        ELSE dialogue

RECURSIVE LinesOpenSegments(_, _, _)
LinesOpenSegments(lines, k, dialogue) ==
    IF k > Len(lines) THEN dialogue
    ELSE LinesOpenSegments(lines, k + 1, LineOpensSegment(dialogue, lines[k]))

\* C21: every line starting with HOST: or EXPERT: starts a new segment for that
\* speaker (also when nothing follows the marker) and every later non-empty unprefixed
\* line is appended, space-joined, to the segment of the most recent prefixed line;
\* unprefixed lines before the first prefixed line are dropped.  So the returned
\* dialogue is the cleaned dialogue of that attribution.
C21_ContinuationGoesToLatestSpeaker ==
    pc = "parsed" =>
        LET lines   == SplitOn(Strip(script), "\n")
            cleaned == CleanDialogue(LinesOpenSegments(lines, 1, <<>>))
        IN  result.value = (IF cleaned = <<>> THEN PlaceholderDialogue ELSE cleaned)

(***************************************************************************)
(* chunk_text as a call of its own: SpecChunk.                             *)
(***************************************************************************)
MaxTextPieces == 5

MaxChars == 6

\* words of 1, 2 and 3 characters and two kinds of whitespace
TextPieces == << "a", "bb", "ccc", " ", "\n" >>

ChunkTexts ==
    { Concat([i \in DOMAIN f |-> TextPieces[f[i]]]) :
        f \in UNION { [1..k -> 1..Len(TextPieces)] : k \in 0..MaxTextPieces } }

InitChunk ==
    /\ pc = "chunk_text"
    /\ text \in ChunkTexts
    /\ chunk_size \in 1..MaxChars /\ reqs = <<>>
    /\ chunks = <<>>
    /\ script = "" /\ request = NoRequest /\ reply = "not_called" /\ gen_log = <<>>
    /\ section_num = 1 /\ total_sections = 1
    /\ all_dialogue = <<>> /\ result = NoResult /\ response = NoResponse
    /\ client = FALSE /\ preferences = NoPrefs
    /\ unreadable = {} /\ out_writable = TRUE /\ tts_down = FALSE /\ voices_down = {}
    /\ output_path = OutputPath
    /\ SynthIdle /\ FsIdle

ChunkCall ==
    /\ pc = "chunk_text"
    /\ chunks' = chunk_text(text, chunk_size)
    /\ pc' = "chunked"
    /\ UNCHANGED <<reqs, EnvVars, text, section_num, total_sections, chunk_size, script, request,
                   reply, gen_log, all_dialogue, SynthVars, FsVars, result, response>>

NextChunk == ChunkCall

SpecChunk == InitChunk /\ [][NextChunk]_vars

\* the pieces of every chunk between its spaces, chunk after chunk
RECURSIVE SplitAllOnSpaces(_)
SplitAllOnSpaces(cs) ==
    IF cs = <<>> THEN <<>> ELSE SplitOn(Head(cs), " ") \o SplitAllOnSpaces(Tail(cs))

\* the maximal runs of non-whitespace characters of s, from left to right
InputWords(s) ==
    LET starts == {i \in 1..Len(s) : /\ Char(s, i) \notin Whitespace
                                     /\ (i = 1 \/ Char(s, i - 1) \in Whitespace)}
        EndOf(i) == CHOOSE j \in i..Len(s) :
                        /\ \A m \in i..j : Char(s, m) \notin Whitespace
                        /\ (j = Len(s) \/ Char(s, j + 1) \in Whitespace)
        RECURSIVE From(_)
        From(i) == IF i > Len(s) THEN <<>>
                   ELSE IF i \in starts THEN <<SubSeq(s, i, EndOf(i))>> \o From(EndOf(i) + 1)
                   ELSE From(i + 1)
    IN  From(1)

\* C12: for every text and max_chars >= 1, splitting each chunk returned by chunk_text
\* on spaces and concatenating the pieces in chunk order gives exactly the
\* whitespace-delimited words of the text in their order; no chunk is empty; and every
\* word lies whole in one chunk.
C12_ChunksReproduceWords ==
    pc = "chunked" =>
        /\ SplitAllOnSpaces(chunks) = InputWords(text)
        /\ \A i \in 1..Len(chunks) : chunks[i] # ""
        /\ \A i \in 1..Len(chunks) :
               \A w \in Range(SplitOn(chunks[i], " ")) : w \in Range(InputWords(text))

C12_Witness_WordsOverTwoChunks ==
    /\ pc = "chunked"
    /\ text = "a bb\nccc"
    /\ chunk_size = 5
    /\ chunks = << "a bb", "ccc" >>

\* the text has a character that is not whitespace
HasWord(s) == \E i \in 1..Len(s) : Char(s, i) \notin Whitespace

\* C13 as stated: chunk_text returns at least one chunk for every non-empty text and
\* the empty sequence only for the empty text.
C13_AsStated_ChunkForNonEmptyText ==
    pc = "chunked" =>
        /\ text # "" => chunks # <<>>
        /\ chunks = <<>> => text = ""

\* C13 amended: chunk_text returns at least one chunk for every text holding at least
\* one non-whitespace character (a single word longer than max_chars becomes one
\* over-long chunk), and the empty sequence exactly when the text is empty or
\* whitespace only.
C13_ChunkIffTextHasWord ==
    pc = "chunked" =>
        /\ HasWord(text) <=> chunks # <<>>
        /\ (Len(InputWords(text)) = 1 /\ Len(InputWords(text)[1]) > chunk_size)
               => chunks = InputWords(text)

C13_Witness_OverlongWord ==
    /\ pc = "chunked"
    /\ text = " ccc\n"
    /\ chunk_size = 1
    /\ chunks = << "ccc" >>

\* the chunk has two or more words
MultiWord(chunk) == Len(SplitOn(chunk, " ")) >= 2

\* length of chunk i followed by a space and the first word of chunk i + 1
JoinedLength(i) == Len(chunks[i]) + 1 + Len(SplitOn(chunks[i + 1], " ")[1])

\* C19 as stated: chunk_text is greedy with bound max_chars: every chunk of two or
\* more words is at most max_chars long, and a new chunk is started only when the
\* current chunk with the next word would exceed max_chars.
C19_AsStated_GreedyUpToMaxChars ==
    pc = "chunked" =>
        /\ \A i \in 1..Len(chunks) : MultiWord(chunks[i]) => Len(chunks[i]) <= chunk_size
        /\ \A i \in 1..(Len(chunks) - 1) : JoinedLength(i) > chunk_size

\* C19 amended: chunk_text is greedy with every word counted one character longer
\* than it is: every chunk of two or more words is at most max_chars - 1 long, and a
\* new chunk is started exactly when the current chunk with a space and the next word
\* would be longer than max_chars - 1.
C19_GreedyUpToMaxCharsLessOne ==
    pc = "chunked" =>
        /\ \A i \in 1..Len(chunks) : MultiWord(chunks[i]) => Len(chunks[i]) <= chunk_size - 1
        /\ \A i \in 1..(Len(chunks) - 1) : JoinedLength(i) > chunk_size - 1

\* two words that would fit together within max_chars are put into two chunks
C19_Witness_SplitAtTheBound ==
    /\ pc = "chunked"
    /\ text = "bb ccc"
    /\ chunk_size = 6
    /\ chunks = << "bb", "ccc" >>

(***************************************************************************)
(* generate_podcast_script as a call of its own: SpecGen.                  *)
(***************************************************************************)
MaxSections == 3

\* the last text is longer than 200 characters and has a newline among the first 200
GenTexts == { "", "Quantum computing\nbasics", Rep("Qubits and gates\n", 15) }

Absent == "<absent>"

\* a preferences dict holding the keys that are not Absent
MkPrefs(tone, length, depth, humor) ==
    LET keys == {k \in {"tone", "length", "depth", "humor"} :
                    \/ k = "tone" /\ tone # Absent
                    \/ k = "length" /\ length # Absent
                    \/ k = "depth" /\ depth # Absent
                    \/ k = "humor" /\ humor # Absent}
    IN  [k \in keys |-> CASE k = "tone" -> tone
                          [] k = "length" -> length
                          [] k = "depth" -> depth
                          [] k = "humor" -> (humor = "true")]

\* recognized and unrecognized values of every preference, each possibly absent
GenPrefs ==
    { MkPrefs(t, l, d, h) : t \in {Absent, "casual", "formal"},
                            l \in {Absent, "short", "huge"},
                            d \in {Absent, "deep-dive", "expert"},
                            h \in {Absent, "true", "false"} }

InitGen ==
    /\ pc = "generate_podcast_script"
    /\ client \in BOOLEAN
    /\ preferences \in GenPrefs
    /\ text \in GenTexts
    /\ section_num \in 1..MaxSections /\ total_sections \in 1..MaxSections
    /\ chunks = <<>> /\ script = "" /\ request = NoRequest /\ reply = "not_called"
    /\ gen_log = <<>>
    /\ chunk_size = 3000 /\ reqs = <<>>
    /\ all_dialogue = <<>> /\ result = NoResult /\ response = NoResponse
    /\ unreadable = {} /\ out_writable = TRUE /\ tts_down = FALSE /\ voices_down = {}
    /\ output_path = OutputPath
    /\ SynthIdle /\ FsIdle

GenerateCall ==
    /\ pc = "generate_podcast_script"
    /\ \E outcome \in RemoteOutcomes :
         LET g == generate_podcast_script(client, text, preferences,
                                          section_num, total_sections, outcome)
         IN  /\ result' = g.result
             /\ request' = g.request
             /\ reply' = g.reply
             /\ gen_log' = Append(gen_log, GenCall(section_num, total_sections, text, g))
             /\ script' = IF g.result.kind = "return" THEN g.result.value ELSE script
    /\ pc' = "generated"
    /\ UNCHANGED <<reqs, EnvVars, text, section_num, total_sections, chunk_size, chunks,
                   all_dialogue, SynthVars, FsVars, response>>

NextGen == GenerateCall

SpecGen == InitGen /\ [][NextGen]_vars

\* C1: generate_podcast_script never propagates an error, whatever the text, the
\* preferences and the section index/total; without a client, on a rate-limit signal
\* and on any other failure of the remote call it returns exactly the fallback script
\* built from the first 200 characters of the text.
C1_NeverPropagatesError ==
    pc = "generated" =>
        /\ result.kind = "return"
        /\ (~client \/ reply \in {"rate_limit", "error"})
               => result.value = _create_fallback_script(text)

\* the prompt holds the levity instruction
Levity(prompt) == Find(prompt, "Add occasional light humor", 1) > 0

\* C20: the humor preference, true when absent, governs both effects alike: the
\* prompt of the remote call holds the levity instruction exactly when the call uses
\* temperature 0.9 and holds none exactly when it uses 0.7; and the token budget is
\* 600/1000/1500 for length short/medium/long, 1000 when the length is absent.
C20_HumorGovernsPromptAndTemperature ==
    (pc = "generated" /\ request.kind = "create") =>
        /\ Levity(request.prompt) <=> request.temperature = 9
        /\ ~Levity(request.prompt) <=> request.temperature = 7
        /\ ("humor" \notin DOMAIN preferences) => request.temperature = 9
        /\ request.max_tokens =
               (IF "length" \notin DOMAIN preferences THEN 1000
                ELSE CASE preferences["length"] = "short" -> 600
                       [] preferences["length"] = "medium" -> 1000
                       [] preferences["length"] = "long" -> 1500)

\* the preference is given and its value is not a key of the table
Unrecognized(prefs, key, table) == key \in DOMAIN prefs /\ prefs[key] \notin DOMAIN table

\* the preferences with the unrecognized length and depth replaced by the defaults
\* (the persona of an unrecognized tone is looked up with a default in any case)
WithDefaults(prefs) ==
    [k \in DOMAIN prefs |->
        IF k = "length" /\ Unrecognized(prefs, k, length_guides) THEN "medium"
        ELSE IF k = "depth" /\ Unrecognized(prefs, k, depth_guides) THEN "balanced"
        ELSE prefs[k]]

\* C24: an unrecognized value of the tone, length or depth preference is handled as
\* the default in every stage (chunk size, token budget, persona, pacing and depth
\* guidance), so generate_podcast_script returns a script, generated or fallback,
\* instead of raising, with credentials present as without them.
C24_UnrecognizedPreferenceIsDefault ==
    (/\ pc = "generated"
     /\ \/ Unrecognized(preferences, "tone", tone_styles)
        \/ Unrecognized(preferences, "length", length_guides)
        \/ Unrecognized(preferences, "depth", depth_guides)) =>
        /\ ChunkSize(preferences) = ChunkSize(WithDefaults(preferences))
        /\ result.kind = "return"
        /\ client =>
               /\ request.kind = "create"
               /\ request.max_tokens = length_tokens[Get(WithDefaults(preferences),
                                                        "length", "medium")]
               /\ request.prompt =
                      _build_prompt(Replace(Prefix(text, 2000), "\n", " "),
                                    WithDefaults(preferences),
                                    section_num, total_sections).value

(***************************************************************************)
(* synthesize_speech as a call of its own: SpecSynth.                      *)
(***************************************************************************)
MaxSegs == 2

\* the last one is shorter than 3 characters and is skipped
SynthSegments ==
    { Segment("HOST", "Hello there"), Segment("EXPERT", "Hi there"), Segment("HOST", "Hi") }

SynthDialogues == UNION { [1..n -> SynthSegments] : n \in 0..MaxSegs }

InitSynth ==
    /\ pc = "synthesize_speech"
    /\ all_dialogue \in SynthDialogues
    /\ seg = NextSegment(all_dialogue, 0) /\ attempt = 0
    /\ audio_files = <<>> /\ calls = <<>>
    /\ tts_down \in BOOLEAN /\ voices_down = {}
    /\ output_path = OutputPath
    /\ tts_faults = max_retries * Len(all_dialogue)
    /\ client = FALSE /\ preferences = NoPrefs /\ text = ""
    /\ section_num = 1 /\ total_sections = 1 /\ chunks = <<>> /\ script = ""
    /\ request = NoRequest /\ reply = "not_called" /\ gen_log = <<>>
    /\ chunk_size = 3000 /\ reqs = <<>>
    /\ unreadable = {} /\ out_writable = TRUE
    /\ FsIdle /\ result = NoResult /\ response = NoResponse

NextSynth == SynthAttempt \/ SynthReturn

SpecSynth == InitSynth /\ [][NextSynth]_vars

\* the synthesis calls made for the segment of 0-based index k
CallsFor(k) == {i \in 1..Len(calls) : calls[i].idx = k}

\* the call returned without raising and left a file of more than 1000 bytes
GoodCall(c) == ~c.raised /\ c.exists /\ c.size > 1000

\* C9: when synthesize_speech returns, a segment's clip is in the returned list iff
\* one of its at most 2 attempts returned without raising and left a file that exists
\* and is larger than 1000 bytes; a first attempt that raised and one that left a file
\* of 1000 bytes or fewer are both followed by a second attempt; and every segment
\* that is not skipped got its attempts, whatever happened to the segments before it.
C9_ClipIffAttemptSucceeded ==
    pc = "combine_audio_files" =>
        \A k \in 0..(Len(all_dialogue) - 1) :
            LET path == ClipPath(k, all_dialogue[k + 1].speaker)
            IN  /\ (path \in Range(audio_files)) <=> (\E i \in CallsFor(k) : GoodCall(calls[i]))
                /\ Cardinality(CallsFor(k)) <= 2
                /\ \A i \in CallsFor(k) :
                       (~GoodCall(calls[i]) /\ calls[i].attempt = 0)
                           => \E j \in CallsFor(k) : calls[j].attempt = 1
                /\ \A i \in CallsFor(k) :
                       GoodCall(calls[i]) => \A j \in CallsFor(k) : j <= i
                /\ ~Skipped(all_dialogue[k + 1]) => CallsFor(k) # {}

C9_Witness_DroppedThenKept ==
    /\ pc = "combine_audio_files"
    /\ Len(all_dialogue) = 2
    /\ Len(calls) = 3
    /\ calls[1].idx = 0 /\ calls[1].raised
    /\ calls[2].idx = 0 /\ ~calls[2].raised /\ calls[2].exists /\ calls[2].size = 1000
    /\ calls[3].idx = 1 /\ GoodCall(calls[3])
    /\ audio_files = <<ClipPath(1, all_dialogue[2].speaker)>>

FailedCalls == {i \in 1..Len(calls) : ~GoodCall(calls[i])}

\* C10 as stated: a 1-segment dialogue with exactly one failing synthesis call yields
\* 0 clips.
C10_AsStated_OneFailureNoClip ==
    (pc = "combine_audio_files" /\ Len(all_dialogue) = 1 /\ Cardinality(FailedCalls) = 1)
        => audio_files = <<>>

\* C10 amended: for a 1-segment dialogue synthesize_speech returns 0 clips, without
\* raising, when both attempts fail; when exactly one call fails it is the first
\* attempt, the second attempt succeeded and the 1 clip is returned.
C10_BothFailuresNoClip ==
    (pc = "combine_audio_files" /\ Len(all_dialogue) = 1) =>
        /\ Cardinality(FailedCalls) = 2 => audio_files = <<>>
        /\ Cardinality(FailedCalls) = 1 =>
               /\ Len(calls) = 2 /\ ~GoodCall(calls[1]) /\ GoodCall(calls[2])
               /\ audio_files = <<ClipPath(0, all_dialogue[1].speaker)>>

C10_Witness_BothAttemptsFailed ==
    /\ pc = "combine_audio_files"
    /\ Len(all_dialogue) = 1
    /\ Cardinality(FailedCalls) = 2
    /\ audio_files = <<>>

(***************************************************************************)
(* Termination of synthesize_speech (C22).  The loops are sequential code  *)
(* and every synthesis call returns or raises, so a step that can be taken *)
(* is taken: weak fairness of the next-state relation.                     *)
(***************************************************************************)
SpecSynthLive == InitSynth /\ [][NextSynth]_vars /\ WF_vars(NextSynth)

\* the calls made so far: at most max_retries per segment, none after a good one for
\* the same segment, none for a segment shorter than 3 characters, never one for a
\* segment before the segment of an earlier call, at most 2 x (number of segments)
AttemptsBounded ==
    /\ \A k \in 0..(Len(all_dialogue) - 1) :
           /\ Cardinality(CallsFor(k)) <= 2
           /\ \A i \in CallsFor(k) :
                  GoodCall(calls[i]) => \A j \in CallsFor(k) : j <= i
           /\ Len(all_dialogue[k + 1].text) < 3 => CallsFor(k) = {}
    /\ \A i, j \in 1..Len(calls) :
           i < j => /\ calls[i].idx <= calls[j].idx
                    /\ calls[i].idx = calls[j].idx => calls[i].attempt < calls[j].attempt
    /\ \A i \in 1..Len(calls) : calls[i].idx \in 0..(Len(all_dialogue) - 1)
    /\ Len(calls) <= 2 * Len(all_dialogue)

\* C22: synthesize_speech makes at most 2 synthesis attempts per segment, none after
\* one succeeded, none for a segment whose text is shorter than 3 characters, and
\* always moves on to the next segment; provided every synthesis call returns or
\* raises, it returns after at most 2 x (number of segments) calls.
C22_TerminatesWithinTwoCallsPerSegment ==
    /\ [](pc \in {"synthesize_speech", "combine_audio_files"} => AttemptsBounded)
    /\ <>(pc = "combine_audio_files")

\* both segments used both attempts and the function returned
C22_Witness_AllAttemptsUsed ==
    /\ pc = "combine_audio_files"
    /\ Len(all_dialogue) = 2
    /\ Len(calls) = 2 * Len(all_dialogue)
    /\ audio_files = <<>>

(***************************************************************************)
(* combine_audio_files as a call of its own: SpecCombine.                  *)
(***************************************************************************)
MaxClips == 2

CombineClips == <<ClipPath(0, "HOST"), ClipPath(1, "EXPERT"), ClipPath(2, "HOST"),
                  ClipPath(3, "EXPERT")>>

ClipSizes == {1001, 2000}

\* every clip of the list is missing, unreadable or readable with some size
InitCombine ==
    /\ pc = "combine_audio_files"
    /\ \E n \in 0..MaxClips :
         /\ audio_files = SubSeq(CombineClips, 1, n)
         /\ \E present \in SUBSET Range(audio_files) :
              /\ files \in [present -> {<<Block("tts", b)>> : b \in ClipSizes}]
              /\ unreadable \in SUBSET present
    /\ out_writable \in BOOLEAN
    /\ script_file = NoFile /\ tiers = <<>> /\ tool = "not_run"
    /\ all_dialogue = <<>> /\ result = NoResult /\ response = NoResponse
    /\ client = FALSE /\ preferences = NoPrefs /\ text = ""
    /\ section_num = 1 /\ total_sections = 1 /\ chunks = <<>> /\ script = ""
    /\ request = NoRequest /\ reply = "not_called" /\ gen_log = <<>>
    /\ chunk_size = 3000 /\ reqs = <<>>
    /\ tts_down = FALSE /\ voices_down = {}
    /\ output_path = OutputPath
    /\ seg = 0 /\ attempt = 0 /\ calls = <<>> /\ tts_faults = 0

NextCombine == CombineTier1 \/ CombineTier2 \/ CombineTier3

SpecCombine == InitCombine /\ [][NextCombine]_vars

CombineOver == pc \in {"done", "raised"}

AllClipsReadable == \A i \in 1..Len(audio_files) : Readable(files, audio_files[i])

ToolFailed == tool \in {"manifest_error", "exception", "timeout", "nonzero", "ok_no_output"}

\* C7: combine_audio_files never raises, and it returns null exactly when the clip
\* list is empty or when Tier 1 and Tier 2 have both failed and the first clip file is
\* missing; on every other path it returns a non-null output path.
C7_NullOnlyWithoutFirstClip ==
    CombineOver =>
        /\ pc = "done"
        /\ (result.value.output_path = None) <=>
               \/ audio_files = <<>>
               \/ tiers = <<"tier1", "tier2", "tier3">> /\ ~Exists(files, audio_files[1])

\* C8 as stated: zero clips give null; a non-empty clip list, a failing tool and
\* readable clips give a non-null path to a file holding the clips' bytes in list
\* order, of the summed length.
C8_AsStated_RawConcatOfReadableClips ==
    CombineOver =>
        /\ audio_files = <<>> => (pc = "done" /\ result.value.output_path = None)
        /\ (audio_files # <<>> /\ ToolFailed /\ AllClipsReadable) =>
               /\ pc = "done"
               /\ result.value.output_path = OutputPath
               /\ Exists(files, OutputPath)
               /\ files[OutputPath] = [i \in 1..Len(audio_files) |-> files[audio_files[i]][1]]

\* C8 amended: zero clips give null; a non-empty clip list, a failing tool, readable
\* clips and an output path that can be opened for writing give a non-null path to a
\* file holding the clips' bytes in list order, so of the summed byte length.
C8_RawConcatWhenOutputWritable ==
    CombineOver =>
        /\ audio_files = <<>> => (pc = "done" /\ result.value.output_path = None)
        /\ (audio_files # <<>> /\ ToolFailed /\ AllClipsReadable /\ out_writable) =>
               /\ pc = "done"
               /\ result.value.output_path = OutputPath
               /\ Exists(files, OutputPath)
               /\ files[OutputPath] = [i \in 1..Len(audio_files) |-> files[audio_files[i]][1]]
               /\ Size(files[OutputPath]) =
                      Size([i \in 1..Len(audio_files) |-> files[audio_files[i]][1]])

C8_Witness_RawConcatOfTwoClips ==
    /\ pc = "done"
    /\ Len(audio_files) = 2
    /\ tool = "nonzero"
    /\ tiers = <<"tier1", "tier2">>
    /\ result.value.output_path = OutputPath
    /\ Size(files[OutputPath]) = 3001

\* combine_audio_files wrote its manifest
ManifestCreated == tool \in {"exception", "timeout", "nonzero", "ok_no_output", "ok_output"}

\* C17: whenever combine_audio_files has created the Tier 1 manifest, the manifest no
\* longer exists when combine_audio_files returns, whatever the outcome of the tool
\* (success, non-zero exit, missing output, timeout, the invocation raising).
C17_ManifestGoneOnReturn ==
    (pc = "done" /\ ManifestCreated) => ~Exists(files, ListFile)

\* C18: the assembly tiers run strictly in order, each only after the one before
\* failed: Tier 1 ends the assembly with the output path only when the tool exited
\* with status 0 and the output file exists; Tier 2 runs only after Tier 1 failed
\* (non-zero exit, missing output, timeout, exception); Tier 3 runs only after Tier 2
\* failed; and no tier runs after an earlier one succeeded.
C18_TiersInOrderAfterFailure ==
    /\ tiers \in {<<>>, <<"tier1">>, <<"tier1", "tier2">>, <<"tier1", "tier2", "tier3">>}
    /\ (tiers = <<"tier1">> /\ pc = "done") =>
           /\ tool = "ok_output"
           /\ result.value.output_path = OutputPath
           /\ Exists(files, OutputPath)
    /\ tool = "ok_output" => (tiers = <<"tier1">> /\ pc = "done")
    /\ Len(tiers) >= 2 => ToolFailed
    /\ Len(tiers) = 3 => ~(out_writable /\ AllClipsReadable)
    /\ (Len(tiers) >= 2 /\ out_writable /\ AllClipsReadable) =>
           (tiers = <<"tier1", "tier2">> /\ pc = "done")
    /\ pc = "_fallback_combine" => tiers = <<"tier1">>
    /\ pc = "first_segment_only" => tiers = <<"tier1", "tier2">>

\* all three tiers ran and the third one produced the output
C18_Witness_ThirdTierProducedOutput ==
    /\ pc = "done"
    /\ tiers = <<"tier1", "tier2", "tier3">>
    /\ tool = "timeout"
    /\ result.value.output_path = OutputPath
    /\ files[OutputPath] = files[audio_files[1]]

(***************************************************************************)
(* One conversion request, from the call of convert_pdf_to_podcast to the  *)
(* HTTP response: Spec.  The speech service is up, down, or unable to      *)
(* serve the EXPERT voice for the whole request here; SpecSynth explores   *)
(* failures of single synthesis calls.                                     *)
(***************************************************************************)
ConvertPrefs == { NoPrefs, [length |-> "short"], [length |-> "huge"] }

Init ==
    /\ pc = "convert_pdf_to_podcast"
    /\ client \in BOOLEAN
    /\ preferences \in ConvertPrefs
    /\ out_writable \in BOOLEAN
    /\ tts_down \in BOOLEAN
    /\ voices_down \in IF tts_down THEN {{}} ELSE {{}, {"EXPERT"}}
    /\ output_path = OutputPath
    /\ unreadable = {}
    /\ text = "" /\ chunks = <<>> /\ section_num = 0 /\ total_sections = 0
    /\ script = "" /\ request = NoRequest /\ reply = "not_called" /\ gen_log = <<>>
    /\ chunk_size = 3000 /\ reqs = <<>>
    /\ all_dialogue = <<>>
    /\ SynthIdle /\ FsIdle
    /\ result = NoResult /\ response = NoResponse

Next ==
    \/ Extract
    \/ ProcessChunk
    \/ PersistScript
    \/ SynthAttempt
    \/ SynthReturn
    \/ CombineTier1
    \/ CombineTier2
    \/ CombineTier3
    \/ AppRespond

Spec == Init /\ [][Next]_vars

\* C4: in every run of convert_pdf_to_podcast, whatever text was extracted, the
\* transcript handed to synthesize_speech is non-empty.
C4_TranscriptNonEmptyAtSynthesis ==
    pc = "synthesize_speech" => all_dialogue # <<>>

\* no readable text was extracted, or no audio clip at all was synthesized
FatalCondition ==
    \/ SplitWords(text) = <<>>
    \/ audio_files = <<>>

\* C5: convert_pdf_to_podcast ends in a failure surfaced to its caller exactly when
\* no readable text could be extracted or no audio clip at all could be synthesized;
\* in those two cases it does not return a normal result record.
C5_FailureExactlyWhenFatal ==
    pc \in {"done", "raised"} => (pc = "raised" <=> FatalCondition)

\* C6: once every chunk has been generated and parsed and audio assembly has been
\* entered, convert_pdf_to_podcast returns a result holding the full transcript,
\* whatever happens in the assembly; a failed assembly only makes the path null.
C6_TranscriptReturnedWhateverAssemblyDoes ==
    (pc \in {"done", "raised"} /\ (tiers # <<>> \/ pc = "done")) =>
        /\ pc = "done"
        /\ result.value.transcript = all_dialogue

(***************************************************************************)
(* Ordering (C11)                                                          *)
(***************************************************************************)
\* the dialogues parsed from the logged scripts, one after the other in log order
RECURSIVE ParsedInLogOrder(_)
ParsedInLogOrder(log) ==
    IF log = <<>> THEN <<>>
    ELSE parse_dialogue(Head(log).result.value) \o ParsedInLogOrder(Tail(log))

\* 0-based transcript index of the segment whose clip is `path`, -1 if there is none
ClipIndex(path) ==
    LET ks == {k \in 0..(Len(all_dialogue) - 1) :
                  ClipPath(k, all_dialogue[k + 1].speaker) = path}
    IN  IF ks = {} THEN -1 ELSE CHOOSE k \in ks : TRUE

\* C11: when convert_pdf_to_podcast returns, (a) one script was generated per chunk,
\* in chunk order, and the returned transcript is the concatenation in that order of
\* the segments parsed from each; (b) the clips returned by synthesize_speech belong
\* to transcript segments of strictly increasing index; (c) a manifest left on disk
\* lists the clips in exactly that order, and the file produced by the raw
\* concatenation holds the clips' bytes in exactly that order.
C11_OrderPreservedEndToEnd ==
    pc = "done" =>
        /\ Len(gen_log) = Len(chunks)
        /\ \A i \in 1..Len(gen_log) :
               gen_log[i].text = chunks[i] /\ gen_log[i].section_num = i
        /\ result.value.transcript = ParsedInLogOrder(gen_log)
        /\ \A j \in 1..Len(audio_files) : ClipIndex(audio_files[j]) >= 0
        /\ \A j \in 1..(Len(audio_files) - 1) :
               ClipIndex(audio_files[j]) < ClipIndex(audio_files[j + 1])
        /\ Exists(files, ListFile) =>
               /\ Len(files[ListFile]) = Len(audio_files)
               /\ \A i \in 1..Len(audio_files) : files[ListFile][i].src = audio_files[i]
        /\ tiers = <<"tier1", "tier2">> =>
               /\ Len(files[OutputPath]) = Len(audio_files)
               /\ \A i \in 1..Len(audio_files) :
                      files[OutputPath][i] = Block(audio_files[i], 1001)

\* two chunks with different dialogues, the EXPERT clips missing, the manifest left
\* behind and the output made by the raw concatenation
C11_Witness_TwoChunksSomeClips ==
    /\ pc = "done"
    /\ Len(gen_log) = 2
    /\ parse_dialogue(gen_log[1].result.value) # parse_dialogue(gen_log[2].result.value)
    /\ Len(audio_files) > 1 /\ Len(audio_files) < Len(all_dialogue)
    /\ Exists(files, ListFile)
    /\ tiers = <<"tier1", "tier2">>

(***************************************************************************)
(* The cap on the chunks (C15)                                             *)
(***************************************************************************)
\* the chunks have been chosen and no synthesis attempt is under way
Chunked == pc \in {"generate", "persist", "raised", "done"}

\* C15: convert_pdf_to_podcast keeps at most 1 chunk when the length preference is
\* "short" and at most 2 otherwise, always the leading chunks of what chunk_text
\* produced, in order; it calls generate_podcast_script once per kept chunk, in chunk
\* order, so at most 1 (short) or 2 times.
C15_AtMostOneOrTwoLeadingChunks ==
    Chunked =>
        LET produced == chunk_text(text, chunk_size)
            short    == "length" \in DOMAIN preferences /\ preferences["length"] = "short"
            cap      == IF short THEN 1 ELSE 2
        IN  /\ Len(chunks) = (IF Len(produced) < cap THEN Len(produced) ELSE cap)
            /\ \A i \in 1..Len(chunks) : chunks[i] = produced[i]
            /\ Len(gen_log) <= Len(chunks)
            /\ \A i \in 1..Len(gen_log) : gen_log[i].text = produced[i]
            /\ pc \in {"persist", "done"} => Len(gen_log) = Len(chunks)

\* three chunks produced, one kept and processed under the short preference
C15_Witness_ShortKeepsFirstOfThree ==
    /\ pc = "done"
    /\ preferences = [length |-> "short"]
    /\ Len(chunk_text(text, chunk_size)) = 3
    /\ Len(chunks) = 1
    /\ Len(gen_log) = 1
    /\ StartsWith(gen_log[1].text, "first-")

(***************************************************************************)
(* Continuity by position (C16)                                            *)
(***************************************************************************)
Contains(s, part) == Find(s, part, 1) > 0

Welcome(prompt) == Contains(prompt, "open the podcast with a warm welcome and an overview")

MidStart(prompt) == Contains(prompt, "START IN MEDIA RES")

WrapUp(prompt) == Contains(prompt, "wrap-up and conclusion")

\* the continuity instruction of the prompt is the one of position sn of ts
ContinuityByPosition(prompt, sn, ts) ==
    /\ Welcome(prompt) <=> (ts > 1 /\ sn = 1)
    /\ MidStart(prompt) <=> (ts > 1 /\ sn > 1)
    /\ WrapUp(prompt) <=> (ts > 1 /\ sn = ts)

\* C16: the prompt built for section sn of ts holds no continuity instruction when
\* ts = 1, the welcome/overview opening when sn = 1 of several, the mid-conversation
\* start when 1 < sn < ts, and the mid-conversation start with the wrap-up when
\* sn = ts > 1; and convert_pdf_to_podcast calls the generator for its i-th chunk with
\* section i of the number of kept chunks, so that the prompts it has sent carry the
\* welcome in the first of several only and the wrap-up in the last of several only.
C16_ContinuityByPosition ==
    pc = "persist" =>
        /\ \A ts \in 1..MaxSections : \A sn \in 1..ts :
               LET b == _build_prompt("Qubits", preferences, sn, ts)
               IN  b.kind = "return" => ContinuityByPosition(b.value, sn, ts)
        /\ \A i \in 1..Len(gen_log) :
               /\ gen_log[i].section_num = i
               /\ gen_log[i].total_sections = Len(chunks)
               /\ gen_log[i].request.kind = "create" =>
                      ContinuityByPosition(gen_log[i].request.prompt, i, Len(chunks))

\* two chunks, both prompts sent: welcome in the first, wrap-up in the second
C16_Witness_WelcomeThenWrapUp ==
    /\ pc = "persist"
    /\ Len(gen_log) = 2
    /\ gen_log[1].request.kind = "create" /\ gen_log[2].request.kind = "create"
    /\ Welcome(gen_log[1].request.prompt) /\ ~WrapUp(gen_log[1].request.prompt)
    /\ WrapUp(gen_log[2].request.prompt) /\ ~Welcome(gen_log[2].request.prompt)

(***************************************************************************)
(* Two conversion requests served at the same time by the one converter of *)
(* app.py (threaded server), from the call of synthesize_speech on:        *)
(* SpecConc.  The requests share the file system; a block written for      *)
(* request r carries the tag of r in its src.  The output path is writable *)
(* and the clips are readable here, so the assembly leaves the clips'      *)
(* bytes in list order, through the tool or through the raw concatenation. *)
(***************************************************************************)
Requests == {1, 2}

\* names of the uploaded files
Uploads == {"notes.pdf", "slides.pdf"}

\* output_filename = filename.replace('.pdf', '.mp3'); os.path.join(OUTPUT_FOLDER, ...)
RequestOutputPath(filename) == OutputDir \o "/" \o Replace(filename, ".pdf", ".mp3")

Tag(r) == "request" \o ToString(r) \o ":"

\* the transcripts of the requests
ConcDialogues ==
    { << Segment("HOST", "Hello there") >>,
      << Segment("EXPERT", "Hi there") >>,
      << Segment("HOST", "Hello there"), Segment("EXPERT", "Hi there") >> }

InitConc ==
    /\ pc = "concurrent"
    /\ reqs \in [Requests -> { [pc |-> "synthesize_speech", upload |-> u, dialogue |-> d,
                                seg |-> 0, attempt |-> 0, audio_files |-> <<>>,
                                output_path |-> None, assembled |-> <<>>] :
                                   u \in Uploads, d \in ConcDialogues }]
    /\ files = NoFiles /\ script_file = NoFile /\ tiers = <<>> /\ tool = "not_run"
    /\ seg = 0 /\ attempt = 0 /\ audio_files = <<>> /\ calls = <<>>
    /\ tts_faults = max_retries
    /\ tts_down = FALSE /\ voices_down = {}
    /\ output_path = OutputPath
    /\ client = FALSE /\ preferences = NoPrefs /\ text = ""
    /\ section_num = 1 /\ total_sections = 1 /\ chunks = <<>> /\ script = ""
    /\ request = NoRequest /\ reply = "not_called" /\ gen_log = <<>>
    /\ chunk_size = 3000
    /\ unreadable = {} /\ out_writable = TRUE
    /\ all_dialogue = <<>> /\ result = NoResult /\ response = NoResponse

\* one attempt of the retry loop of synthesize_speech, made for request r
ConcSynthAttempt(r) ==
    /\ reqs[r].pc = "synthesize_speech"
    /\ reqs[r].seg < Len(reqs[r].dialogue)
    /\ \E o \in TtsOutcomes :
         LET q        == reqs[r]
             segment  == q.dialogue[q.seg + 1]
             filename == ClipPath(q.seg, segment.speaker)
             fs       == IF o.wrote >= 0
                         THEN WriteFile(files, filename,
                                        <<Block(Tag(r) \o filename, o.wrote)>>)
                         ELSE files
             success  == ~o.raises /\ ClipAccepted(fs, filename)
             fault    == o.raises \/ o.wrote <= 1000
         IN  /\ fault => tts_faults > 0
             /\ tts_faults' = IF fault THEN tts_faults - 1 ELSE tts_faults
             /\ files' = fs
             /\ reqs' = [reqs EXCEPT ![r] =
                    [q EXCEPT
                       !.audio_files = IF success THEN Append(@, filename) ELSE @,
                       !.seg = IF ~success /\ RetryLeft(q.attempt) THEN @
                               ELSE NextSegment(q.dialogue, q.seg + 1),
                       !.attempt = IF ~success /\ RetryLeft(q.attempt) THEN @ + 1 ELSE 0]]
    /\ UNCHANGED <<pc, EnvVars, GenVars, all_dialogue, seg, attempt, audio_files, calls,
                   script_file, tiers, tool, result, response>>

\* synthesize_speech returns for request r; combine_audio_files is entered
ConcSynthReturn(r) ==
    /\ reqs[r].pc = "synthesize_speech"
    /\ reqs[r].seg = Len(reqs[r].dialogue)
    /\ reqs' = [reqs EXCEPT ![r].pc = "combine_audio_files"]
    /\ UNCHANGED <<pc, EnvVars, GenVars, all_dialogue, SynthVars, FsVars, result, response>>

\* combine_audio_files for request r: the files named by its clip list, as they are
\* now, are put one after the other into its output file
ConcCombine(r) ==
    /\ reqs[r].pc = "combine_audio_files"
    /\ LET q       == reqs[r]
           out     == RequestOutputPath(q.upload)
           content == RawConcat(files, q.audio_files)
       IN  IF q.audio_files = <<>>
           THEN /\ reqs' = [reqs EXCEPT ![r] = [q EXCEPT !.pc = "done"]]
                /\ files' = files
           ELSE /\ reqs' = [reqs EXCEPT ![r] = [q EXCEPT !.pc = "done",
                                                          !.output_path = out,
                                                          !.assembled = content]]
                /\ files' = WriteFile(files, out, content)
    /\ UNCHANGED <<pc, EnvVars, GenVars, all_dialogue, SynthVars, script_file, tiers, tool,
                   result, response>>

NextConc ==
    \E r \in Requests : ConcSynthAttempt(r) \/ ConcSynthReturn(r) \/ ConcCombine(r)

SpecConc == InitConc /\ [][NextConc]_vars

\* every block of the content was written for request r
OwnedBy(r, content) ==
    \A i \in 1..Len(content) : StartsWith(content[i].src, Tag(r))

\* C14: with two concurrent requests, every clip a request has collected still holds
\* what was synthesized for that request, the audio a request has assembled is made of
\* clips synthesized for it only, and the output file of a finished request holds what
\* that request assembled.
C14_RequestsDoNotShareFiles ==
    \A r \in Requests :
        /\ \A j \in 1..Len(reqs[r].audio_files) :
               OwnedBy(r, files[reqs[r].audio_files[j]])
        /\ OwnedBy(r, reqs[r].assembled)
        /\ (reqs[r].pc = "done" /\ reqs[r].output_path # None)
               => files[reqs[r].output_path] = reqs[r].assembled

(***************************************************************************)
(* The transcript file: convert_pdf_to_podcast from the end of the loop    *)
(* over the chunks to its return, for the output paths convert_pdf of      *)
(* app.py derives from the uploaded file's name: SpecPersist.              *)
(***************************************************************************)
\* allowed_file accepts the extension in any case; secure_filename keeps the case
PersistUploads == {"notes.pdf", "NOTES.PDF"}

PersistSegments == { Segment("HOST", "Hello there"), Segment("EXPERT", "Hi there") }

\* all_dialogue at the end of the loop over the chunks
PersistDialogues ==
    UNION { [1..n -> PersistSegments] : n \in 0..MaxSegs } \cup {PlaceholderDialogue}

InitPersist ==
    /\ pc = "persist"
    /\ all_dialogue \in PersistDialogues
    /\ output_path \in { RequestOutputPath(u) : u \in PersistUploads }
    /\ out_writable \in BOOLEAN
    /\ tts_down \in BOOLEAN /\ voices_down = {}
    /\ unreadable = {}
    /\ client = FALSE /\ preferences = NoPrefs /\ text = ""
    /\ section_num = 0 /\ total_sections = 0 /\ chunks = <<>> /\ script = ""
    /\ request = NoRequest /\ reply = "not_called" /\ gen_log = <<>>
    /\ chunk_size = 3000 /\ reqs = <<>>
    /\ SynthIdle /\ FsIdle
    /\ result = NoResult /\ response = NoResponse

NextPersist ==
    \/ PersistScript
    \/ SynthAttempt
    \/ SynthReturn
    \/ CombineTier1
    \/ CombineTier2
    \/ CombineTier3

SpecPersist == InitPersist /\ [][NextPersist]_vars

\* index of the last "." of the first k characters of s, or 0
RECURSIVE LastDot(_, _)
LastDot(s, k) ==
    IF k = 0 THEN 0
    ELSE IF SubSeq(s, k, k) = "." THEN k
    ELSE LastDot(s, k - 1)

\* <outputDir>/<outputStem>_script.json, the stem being the file name without its
\* extension
StemScriptPath(path) ==
    LET name == Basename(path)
        dot  == LastDot(name, Len(name))
        stem == IF dot = 0 THEN name ELSE SubSeq(name, 1, dot - 1)
    IN  (IF Dirname(path) = "" THEN "." ELSE Dirname(path)) \o "/" \o stem \o "_script.json"

\* the transcript has been written: the call is in synthesis or assembly, or is over
Persisted ==
    \/ pc \in {"synthesize_speech", "combine_audio_files", "_fallback_combine",
               "first_segment_only", "done"}
    \/ pc = "raised" /\ tiers # <<>>

\* C23: the transcript file <outputDir>/<outputStem>_script.json is written after the
\* last chunk has been parsed and before the first speech-synthesis attempt, its
\* content is exactly the transcript later returned in the result, and it stays in
\* place, complete, whatever happens during synthesis and assembly.
C23_TranscriptPersistedAndKept ==
    /\ (Persisted \/ calls # <<>>) =>
          /\ section_num = Len(chunks)
          /\ Exists(files, StemScriptPath(output_path))
          /\ files[StemScriptPath(output_path)] = TextFile(JsonDump(all_dialogue))
    /\ pc = "done" =>
          files[StemScriptPath(output_path)] = TextFile(JsonDump(result.value.transcript))

====
